---- MODULE Spec2Model ----
\* Model of tours.py: the availability resolver (get_tour_availabilities),
\* the report renderer (print_human_readable), main and the top-level
\* try/except of the script, with the upstream service as the environment.
EXTENDS Integers, Sequences, FiniteSets, TLC

\* ---------------------------------------------------------------- bounds
\* Longest --tours list drawn as an input.
MaxTours == 2
\* The upstream dataset repeats its per-day entry with this period (in days).
PatternPeriod == 2

\* ------------------------------------------------------- program constants
\* send_request: the only status that is not an error.
OkStatus == 200
\* CPython's exit status when an exception leaves the script unhandled.
UnhandledExitStatus == 1

\* ------------------------------------------------------------ input sets
\* Tour ids that may be asked for and that the upstream may list.
TourIdPool == {7, 12}
FacilityIds == {300}
\* Statuses the upstream answers with.
StatusCodes == {200, 500}
\* Values (--start-date, --end-date) take (valid_date accepted them): one
\* day, days of one month, across a year's end, onto a first of the month,
\* over a leap day, over three months, and start after end.
InputRanges ==
    { << <<2024, 1, 1>>, <<2024, 1, 1>> >>,
      << <<2024, 1, 1>>, <<2024, 1, 3>> >>,
      << <<2023, 12, 31>>, <<2024, 1, 1>> >>,
      << <<2023, 12, 30>>, <<2024, 1, 2>> >>,
      << <<2024, 2, 28>>, <<2024, 3, 1>> >>,
      << <<2024, 1, 31>>, <<2024, 3, 1>> >>,
      << <<2024, 1, 2>>, <<2024, 1, 1>> >>,
      << <<2024, 3, 1>>, <<2024, 2, 29>> >> }
TourStates == {"absent", "no", "yes"}
\* The (year, month) pairs the input ranges can reach.
CalendarMonths == {<<2023, 12>>, <<2024, 1>>, <<2024, 2>>, <<2024, 3>>}

\* ------------------------------------------------------------- calendar
\* datetime values are <<year, month, day>> (all times are midnight).
IsLeap(y) == (y % 4 = 0 /\ y % 100 # 0) \/ y % 400 = 0

DaysInMonth(y, m) ==
    CASE m \in {1, 3, 5, 7, 8, 10, 12} -> 31
      [] m \in {4, 6, 9, 11} -> 30
      [] OTHER -> IF IsLeap(y) THEN 29 ELSE 28

DaysBeforeYear(y) ==
    (y - 1) * 365 + ((y - 1) \div 4) - ((y - 1) \div 100) + ((y - 1) \div 400)

RECURSIVE DaysBeforeMonth(_, _)
DaysBeforeMonth(y, m) ==
    IF m = 1 THEN 0 ELSE DaysBeforeMonth(y, m - 1) + DaysInMonth(y, m - 1)

\* datetime.toordinal
ToOrdinal(dt) == DaysBeforeYear(dt[1]) + DaysBeforeMonth(dt[1], dt[2]) + dt[3]

\* datetime comparison
DateLE(a, b) ==
    \/ a[1] < b[1]
    \/ a[1] = b[1] /\ a[2] < b[2]
    \/ a[1] = b[1] /\ a[2] = b[2] /\ a[3] <= b[3]

NextDay(dt) ==
    IF dt[3] < DaysInMonth(dt[1], dt[2]) THEN <<dt[1], dt[2], dt[3] + 1>>
    ELSE IF dt[2] < 12 THEN <<dt[1], dt[2] + 1, 1>>
    ELSE <<dt[1] + 1, 1, 1>>

\* the MONTHLY step of rrule from a first of the month
NextMonth(dt) ==
    IF dt[2] < 12 THEN <<dt[1], dt[2] + 1, 1>> ELSE <<dt[1] + 1, 1, 1>>

\* ------------------------------------------------------------ formatting
DigitChars == <<"0", "1", "2", "3", "4", "5", "6", "7", "8", "9">>

DigitChar(n) == DigitChars[n + 1]

\* str(int) for n >= 0
RECURSIVE Str(_)
Str(n) == IF n < 10 THEN DigitChar(n) ELSE Str(n \div 10) \o DigitChar(n % 10)

\* zero padding to a width, as %Y (4), %m and %d (2) do
RECURSIVE ZeroPad(_, _)
ZeroPad(s, width) == IF Len(s) >= width THEN s ELSE ZeroPad("0" \o s, width)

\* datetime.strftime(date, INPUT_DATE_FORMAT), INPUT_DATE_FORMAT = "%Y-%m-%d"
DateStr(dt) ==
    ZeroPad(Str(dt[1]), 4) \o "-" \o ZeroPad(Str(dt[2]), 2)
        \o "-" \o ZeroPad(Str(dt[3]), 2)

\* The calendar of CalendarMonths with each date's ordinal and text, computed
\* once (merging with the empty function makes each table an explicit value).
CalendarDates ==
    { <<ym[1], ym[2], d>> : ym \in CalendarMonths, d \in 1..31 }
        \cap { dt \in Int \X Int \X Int : dt[3] <= DaysInMonth(dt[1], dt[2]) }

OrdinalOf == [dt \in CalendarDates |-> ToOrdinal(dt)] @@ <<>>

Formatted == [dt \in CalendarDates |-> DateStr(dt)] @@ <<>>

\* ----------------------------------------------------------------- state
VARIABLES
    pc,              \* where the script is: start, query, collapse, render, except, done
    facility,        \* --facility
    tour_ids,        \* --tours, a list
    start_date,      \* --start-date
    end_date,        \* --end-date
    upstream,        \* the upstream dataset: day class -> what the service holds
    months,          \* get_tour_availabilities: months
    mi,              \* index of the next month_date of the loop over months
    api_data,        \* get_tour_availabilities: api_data, date string -> day entry
    desired_dates,   \* get_tour_availabilities: desired_dates
    ti,              \* index of the next tour_id of the loop over tour_ids
    availabilities,  \* the dict: keys in insertion order, vals by key
    ri,              \* index of the next item of print_human_readable's loop
    requests,        \* every requests.get issued, in order, with its status
    stdout,          \* every line printed, in order
    exception,       \* the exception in flight or that ended the run
    resolved,        \* main holds the resolver's return value (line 105)
    main_result,     \* what main returned (-1: it has not returned)
    exit_status      \* the process's exit status (-1: still running)

vars ==
    << pc, facility, tour_ids, start_date, end_date, upstream, months, mi,
       api_data, desired_dates, ti, availabilities, ri, requests, stdout,
       exception, resolved, main_result, exit_status >>

\* ------------------------------------------------------------- upstream
\* What the service holds for a day: whether the day is listed at all and,
\* per tour, whether the tour is listed and reservable.
DayEntries ==
    { e \in [present : BOOLEAN, tours : [TourIdPool -> TourStates]] :
        e.present \/ \A t \in TourIdPool : e.tours[t] = "absent" }

UpstreamDay(dt) == upstream[OrdinalOf[dt] % PatternPeriod]

\* One day's value in the JSON of the monthly view: the tours listed, by
\* str(tour id).
RECURSIVE ToursJson(_, _)
ToursJson(e, left) ==
    IF left = {} THEN <<>>
    ELSE
        LET t == CHOOSE x \in left : TRUE
            rest == ToursJson(e, left \ {t})
        IN  IF e.tours[t] = "absent" THEN rest
            ELSE (Str(t) :> [has_reservable |-> (e.tours[t] = "yes")]) @@ rest

DayJson(e) == [tour_availability_summary_view_by_tour_id |-> ToursJson(e, TourIdPool)]

DayJsonOf == [e \in DayEntries |-> DayJson(e)] @@ <<>>

\* resp["facility_availability_summary_view_by_local_date"] of the query
\* for (year, month): the days of that month the service lists, from day d on.
RECURSIVE MonthlyDays(_, _, _)
MonthlyDays(y, m, d) ==
    IF d > DaysInMonth(y, m) THEN <<>>
    ELSE
        LET e == UpstreamDay(<<y, m, d>>)
            rest == MonthlyDays(y, m, d + 1)
        IN  IF e.present THEN (Formatted[<<y, m, d>>] :> DayJsonOf[e]) @@ rest
            ELSE rest

MonthlyResponse(y, m) == MonthlyDays(y, m, 1)

\* resp["tour_name"] of the tour page
TourName(t) == "Tour " \o Str(t)

\* --------------------------------------------------------- send_request
SendRequestOk_NoCheck(status) == TRUE

\* send_request returns resp.json() iff the status is 200, else raises.
SendRequestOk(status) == status = OkStatus

AvailabilityRequest(fac, dt, status) ==
    [kind |-> "availability", facility |-> fac, year |-> dt[1],
     month |-> dt[2], tour |-> 0, status |-> status]

TourRequest(t, status) ==
    [kind |-> "tour", facility |-> 0, year |-> 0, month |-> 0,
     tour |-> t, status |-> status]

\* ------------------------------------------------- get_tour_availabilities
StartOfMonth(dt) == <<dt[1], dt[2], 1>>

PastUntil_Exclusive(cur, until) == DateLE(until, cur)

\* rrule stops at the first occurrence after `until` (until is inclusive).
PastUntil(cur, until) == ~DateLE(cur, until)

RECURSIVE RRuleMonthly(_, _)
RRuleMonthly(cur, until) ==
    IF PastUntil(cur, until) THEN <<>>
    ELSE <<cur>> \o RRuleMonthly(NextMonth(cur), until)

\* dict.update: the argument's entries win.
DictUpdate(d, r) == r @@ d

\* (end_date - start_date + timedelta(days=1)).days
RangeDays_ExclusiveEnd(start, end) == OrdinalOf[end] - OrdinalOf[start]

RangeDays(start, end) == OrdinalOf[end] - OrdinalOf[start] + 1

\* [start_date + timedelta(days=x) for x in range(n)]: empty when n <= 0
RECURSIVE DatesFrom(_, _)
DatesFrom(dt, n) == IF n <= 0 THEN <<>> ELSE <<dt>> \o DatesFrom(NextDay(dt), n - 1)

DesiredDates(start, end) == DatesFrom(start, RangeDays(start, end))

DictEmpty == [keys |-> <<>>, vals |-> <<>>]

DictSetItem_AlwaysAppend(d, k, v) ==
    [keys |-> Append(d.keys, k),
     vals |-> [x \in DOMAIN d.vals \cup {k} |-> IF x = k THEN v ELSE d.vals[x]]]

\* d[k] = v: a new key goes last, a key already there keeps its place.
DictSetItem(d, k, v) ==
    [keys |-> IF k \in DOMAIN d.vals THEN d.keys ELSE Append(d.keys, k),
     vals |-> [x \in DOMAIN d.vals \cup {k} |-> IF x = k THEN v ELSE d.vals[x]]]

NotFoundLine(t, ds) == [kind |-> "not_found", subject |-> Str(t), dates |-> <<ds>>]

\* The loop over desired_dates for one tour_id (lines 80-86): the dates are
\* taken in order up to the first one that api_data does not hold, where
\* api_data[date_formatted] raises KeyError. Of the dates before it, those
\* whose mapping lacks str(tour_id) print a line and those whose
\* has_reservable is true are appended.
InnerLoop(data, dates, t) ==
    LET formatted == [i \in 1..Len(dates) |-> Formatted[dates[i]]]
        missing == {i \in 1..Len(dates) : formatted[i] \notin DOMAIN data}
        stop == IF missing = {} THEN Len(dates) + 1
                ELSE CHOOSE i \in missing : \A j \in missing : i <= j
        reached == SubSeq(formatted, 1, stop - 1)
        key == Str(t)
        ByTour(k) == data[k].tour_availability_summary_view_by_tour_id
        NotFound(k) == key \notin DOMAIN ByTour(k)
        Reservable(k) == ~NotFound(k) /\ ByTour(k)[key].has_reservable
        unlisted == SelectSeq(reached, NotFound)
    IN  [dates |-> SelectSeq(reached, Reservable),
         out |-> [i \in 1..Len(unlisted) |-> NotFoundLine(t, unlisted[i])],
         err |-> missing # {}]

\* ---------------------------------------------------- print_human_readable
DictItems_Reversed(d) ==
    [i \in 1..Len(d.keys) |->
        <<d.keys[Len(d.keys) + 1 - i], d.vals[d.keys[Len(d.keys) + 1 - i]]>>]

\* availabilities.items(): insertion order
DictItems(d) == [i \in 1..Len(d.keys) |-> <<d.keys[i], d.vals[d.keys[i]]>>]

ReportLine(name, dates) ==
    IF dates = <<>>
    THEN [kind |-> "no_availabilities", subject |-> name, dates |-> <<>>]
    ELSE [kind |-> "available", subject |-> name, dates |-> dates]

\* ------------------------------------------------------------------ main
ExitCode_All(d) == IF \A k \in DOMAIN d.vals : d.vals[k] # <<>> THEN 0 ELSE 1

\* 0 if any(availabilities.values()) else 1
ExitCode(d) == IF \E k \in DOMAIN d.vals : d.vals[k] # <<>> THEN 0 ELSE 1

WrongLine == [kind |-> "something_went_wrong", subject |-> "", dates |-> <<>>]

\* ------------------------------------------------------------------ Init
TourLists == UNION { [1..n -> TourIdPool] : n \in 1..MaxTours }

Init ==
    /\ pc = "start"
    /\ facility \in FacilityIds
    /\ tour_ids \in TourLists
    /\ \E r \in InputRanges : start_date = r[1] /\ end_date = r[2]
    /\ upstream \in [0..(PatternPeriod - 1) -> DayEntries]
    /\ months = <<>>
    /\ mi = 1
    /\ api_data = <<>>
    /\ desired_dates = <<>>
    /\ ti = 1
    /\ availabilities = DictEmpty
    /\ ri = 1
    /\ requests = <<>>
    /\ stdout = <<>>
    /\ exception = "none"
    /\ resolved = FALSE
    /\ main_result = -1
    /\ exit_status = -1

\* --------------------------------------------------------------- actions
\* lines 58-62: the firsts of the months to query, and the empty api_data
ComputeMonths ==
    /\ pc = "start"
    /\ months' = RRuleMonthly(StartOfMonth(start_date), end_date)
    /\ mi' = 1
    /\ api_data' = <<>>
    /\ pc' = "query"
    /\ UNCHANGED << facility, tour_ids, start_date, end_date, upstream,
                    desired_dates, ti, availabilities, ri, requests, stdout,
                    exception, resolved, main_result, exit_status >>

\* lines 63-72: one iteration of the loop over months
QueryMonth ==
    /\ pc = "query"
    /\ mi <= Len(months)
    /\ \E status \in StatusCodes :
        /\ requests' = Append(requests, AvailabilityRequest(facility, months[mi], status))
        /\ IF SendRequestOk(status)
           THEN /\ api_data' = DictUpdate(api_data,
                                    MonthlyResponse(months[mi][1], months[mi][2]))
                /\ mi' = mi + 1
                /\ UNCHANGED << pc, exception >>
           ELSE /\ exception' = "RuntimeError"
                /\ pc' = "except"
                /\ UNCHANGED << api_data, mi >>
    /\ UNCHANGED << facility, tour_ids, start_date, end_date, upstream, months,
                    desired_dates, ti, availabilities, ri, stdout, resolved,
                    main_result, exit_status >>

\* lines 74-77: after the last month
StartCollapse ==
    /\ pc = "query"
    /\ mi > Len(months)
    /\ desired_dates' = DesiredDates(start_date, end_date)
    /\ availabilities' = DictEmpty
    /\ ti' = 1
    /\ pc' = "collapse"
    /\ UNCHANGED << facility, tour_ids, start_date, end_date, upstream, months,
                    mi, api_data, ri, requests, stdout, exception, resolved,
                    main_result, exit_status >>

\* lines 78-86: one iteration of the loop over tour_ids
CollapseTour ==
    /\ pc = "collapse"
    /\ ti <= Len(tour_ids)
    /\ LET t == tour_ids[ti]
           r == InnerLoop(api_data, desired_dates, t)
       IN  /\ availabilities' = DictSetItem(availabilities, t, r.dates)
           /\ stdout' = stdout \o r.out
           /\ IF r.err
              THEN /\ exception' = "KeyError"
                   /\ pc' = "except"
                   /\ UNCHANGED ti
              ELSE /\ ti' = ti + 1
                   /\ UNCHANGED << pc, exception >>
    /\ UNCHANGED << facility, tour_ids, start_date, end_date, upstream, months,
                    mi, api_data, desired_dates, ri, requests, resolved,
                    main_result, exit_status >>

\* lines 88 and 105-111: the resolver returns, main calls the renderer
ReturnAvailabilities ==
    /\ pc = "collapse"
    /\ ti > Len(tour_ids)
    /\ resolved' = TRUE
    /\ ri' = 1
    /\ pc' = "render"
    /\ UNCHANGED << facility, tour_ids, start_date, end_date, upstream, months,
                    mi, api_data, desired_dates, ti, availabilities, requests,
                    stdout, exception, main_result, exit_status >>

\* lines 96-102 (and 90-93): one iteration of the loop over the items
RenderTour ==
    /\ pc = "render"
    /\ ri <= Len(DictItems(availabilities))
    /\ LET item == DictItems(availabilities)[ri]
       IN  \E status \in StatusCodes :
            /\ requests' = Append(requests, TourRequest(item[1], status))
            /\ IF SendRequestOk(status)
               THEN /\ stdout' = Append(stdout, ReportLine(TourName(item[1]), item[2]))
                    /\ ri' = ri + 1
                    /\ UNCHANGED << pc, exception >>
               ELSE /\ exception' = "RuntimeError"
                    /\ pc' = "except"
                    /\ UNCHANGED << stdout, ri >>
    /\ UNCHANGED << facility, tour_ids, start_date, end_date, upstream, months,
                    mi, api_data, desired_dates, ti, availabilities, resolved,
                    main_result, exit_status >>

\* lines 112-115 and 159-160: main returns its code, sys.exit(code)
MainReturn ==
    /\ pc = "render"
    /\ ri > Len(DictItems(availabilities))
    /\ main_result' = ExitCode(availabilities)
    /\ exit_status' = ExitCode(availabilities)
    /\ pc' = "done"
    /\ UNCHANGED << facility, tour_ids, start_date, end_date, upstream, months,
                    mi, api_data, desired_dates, ti, availabilities, ri,
                    requests, stdout, exception, resolved >>

\* lines 161-164: print, log, re-raise; the interpreter ends with status 1
HandleException ==
    /\ pc = "except"
    /\ stdout' = Append(stdout, WrongLine)
    /\ exit_status' = UnhandledExitStatus
    /\ pc' = "done"
    /\ UNCHANGED << facility, tour_ids, start_date, end_date, upstream, months,
                    mi, api_data, desired_dates, ti, availabilities, ri,
                    requests, exception, resolved, main_result >>

Next ==
    \/ ComputeMonths
    \/ QueryMonth
    \/ StartCollapse
    \/ CollapseTour
    \/ ReturnAvailabilities
    \/ RenderTour
    \/ MainReturn
    \/ HandleException

Spec == Init /\ [][Next]_vars

\* ------------------------------------------------------- what claims read
\* The set of values of a list.
Range(s) == {s[i] : i \in DOMAIN s}

\* The calendar date with a given ordinal.
DateAt ==
    [o \in {OrdinalOf[dt] : dt \in CalendarDates} |->
        CHOOSE dt \in CalendarDates : OrdinalOf[dt] = o] @@ <<>>

\* The day number a "YYYY-MM-DD" string stands for.
OrdinalOfString ==
    [str \in {Formatted[dt] : dt \in CalendarDates} |->
        OrdinalOf[CHOOSE dt \in CalendarDates : Formatted[dt] = str]] @@ <<>>

\* The calendar dates of [start_date, end_date], both ends included.
RangeDateSet == {DateAt[o] : o \in OrdinalOf[start_date]..OrdinalOf[end_date]}

\* What the service holds for tour t on date dt.
TourStateOn(t, dt) == UpstreamDay(dt).tours[t]

AvailabilityIndexes == {i \in DOMAIN requests : requests[i].kind = "availability"}

TourIndexes == {i \in DOMAIN requests : requests[i].kind = "tour"}

AvailabilityFailed == \E i \in AvailabilityIndexes : requests[i].status # 200

TourLookupFailed == \E i \in TourIndexes : requests[i].status # 200

ReportLines == {i \in DOMAIN stdout : stdout[i].kind \in {"no_availabilities", "available"}}

\* How many times a line was printed / an id was asked for.
Printed(line) == Cardinality({i \in DOMAIN stdout : stdout[i] = line})

Occurrences(t) == Cardinality({i \in DOMAIN tour_ids : tour_ids[i] = t})

\* The ids of a list in the order of their first occurrence.
RECURSIVE FirstOccurrencesFrom(_, _)
FirstOccurrencesFrom(s, i) ==
    IF i > Len(s) THEN <<>>
    ELSE IF \E j \in 1..(i - 1) : s[j] = s[i] THEN FirstOccurrencesFrom(s, i + 1)
    ELSE <<s[i]>> \o FirstOccurrencesFrom(s, i + 1)

RequestOrder == FirstOccurrencesFrom(tour_ids, 1)

\* ------------------------------------------------------------------- C1
\* C1: once get_tour_availabilities has returned for a range with
\* start <= end whose dates are all in the merged snapshot, each requested
\* tour's list holds exactly the date strings of the dates of [start, end]
\* (both ends included) on which the service lists the tour as reservable,
\* each once, in ascending chronological order, and nothing else.
Thm_C1 ==
    (resolved /\ DateLE(start_date, end_date)
        /\ \A dt \in RangeDateSet : Formatted[dt] \in DOMAIN api_data)
    => \A t \in Range(tour_ids) :
        LET l == availabilities.vals[t]
            good == {x \in OrdinalOf[start_date]..OrdinalOf[end_date] :
                        TourStateOn(t, DateAt[x]) = "yes"}
        IN  /\ Len(l) = Cardinality(good)
            /\ \A i \in 1..Len(l) :
                    l[i] \in DOMAIN OrdinalOfString /\ OrdinalOfString[l[i]] \in good
            /\ \A i \in 1..(Len(l) - 1) :
                    OrdinalOfString[l[i]] < OrdinalOfString[l[i + 1]]

\* A range over a year's end, first and last day reservable, the days
\* between not: the list holds the two ends, in order.
Witness_C1 ==
    /\ resolved
    /\ start_date = <<2023, 12, 30>>
    /\ end_date = <<2024, 1, 2>>
    /\ 7 \in Range(tour_ids)
    /\ availabilities.vals[7] = <<"2023-12-31", "2024-01-02">>

\* ------------------------------------------------------------------- C2
\* C2: when every monthly query of a range with start <= end has succeeded,
\* exactly one availability query was issued for each (year, month) the
\* range touches, and none for any other month.
Thm_C2 ==
    (pc \notin {"start", "query"} /\ ~AvailabilityFailed /\ DateLE(start_date, end_date))
    => LET touched == {<<dt[1], dt[2]>> : dt \in RangeDateSet}
       IN  /\ Cardinality(AvailabilityIndexes) = Cardinality(touched)
           /\ \A ym \in touched :
                Cardinality({i \in AvailabilityIndexes :
                    requests[i].year = ym[1] /\ requests[i].month = ym[2]}) = 1
           /\ \A i \in AvailabilityIndexes :
                <<requests[i].year, requests[i].month>> \in touched

\* Three months, the last touched only by its first day.
Witness_C2 ==
    /\ pc = "collapse"
    /\ start_date = <<2024, 1, 31>>
    /\ end_date = <<2024, 3, 1>>
    /\ Len(requests) = 3
    /\ requests[3].year = 2024 /\ requests[3].month = 3

\* ------------------------------------------------------------------- C3
\* C3: whenever get_tour_availabilities returns, the result has exactly one
\* entry per requested tour id and no other key, the keys in request order
\* (the order of first occurrence in the request).
Thm_C3 ==
    resolved
    => /\ availabilities.keys = RequestOrder
       /\ DOMAIN availabilities.vals = Range(tour_ids)
       /\ Len(availabilities.keys) = Cardinality(Range(tour_ids))

\* A tour asked for twice and never found: one entry, the empty list.
Witness_C3 ==
    /\ resolved
    /\ tour_ids = <<12, 12>>
    /\ availabilities.keys = <<12>>
    /\ availabilities.vals[12] = <<>>
    /\ Printed(NotFoundLine(12, "2024-01-01")) > 0

\* ------------------------------------------------------------------- C4
\* C4 (as claimed): a date of the range that no monthly response lists does
\* not crash resolution: when no request failed, the resolver has returned,
\* no list holds that date, and each requested tour has a not-found line
\* for it.
Cex_C4 ==
    (pc \notin {"start", "query", "collapse"} /\ ~AvailabilityFailed)
    => /\ resolved
       /\ \A dt \in RangeDateSet : ~UpstreamDay(dt).present =>
            \A t \in Range(tour_ids) :
                /\ Printed(NotFoundLine(t, Formatted[dt])) >= 1
                /\ Formatted[dt] \notin Range(availabilities.vals[t])

\* ------------------------------------------------------------------- C5
\* C5: when resolution and rendering complete without a failed request,
\* main returns 0 if some requested tour has a non-empty list and 1
\* otherwise, and that is the exit status.
Thm_C5 ==
    (pc = "done" /\ exception = "none")
    => /\ main_result \in {0, 1}
       /\ exit_status = main_result
       /\ main_result = 0 <=>
            \E t \in Range(tour_ids) : availabilities.vals[t] # <<>>

\* Two tours, one with dates and one with none: 0.
Witness_C5 ==
    /\ pc = "done"
    /\ main_result = 0
    /\ tour_ids = <<7, 12>>
    /\ availabilities.vals[7] = <<>>
    /\ availabilities.vals[12] # <<>>

\* ------------------------------------------------------------------- C6
\* C6 (as claimed), for a range with start <= end: after a monthly query
\* that returned a non-200 status the run ends with no result, no report
\* line, and an exit status that is neither 0 nor 1.
Cex_C6 ==
    (pc = "done" /\ AvailabilityFailed /\ DateLE(start_date, end_date))
    => /\ ~resolved
       /\ ReportLines = {}
       /\ exit_status \notin {0, 1}

\* C6 (amended): after a monthly query that returned a non-200 status,
\* whichever month it is, the resolution aborts: the failed query is the
\* last request, no result reaches main, no report line is printed, main
\* returns no code, and the run ends on the error path (the exception is
\* printed, logged and re-raised) with the interpreter's exit status for an
\* unhandled exception, 1: non-zero, and not 0.
Thm_C6 ==
    AvailabilityFailed
    => /\ pc \in {"except", "done"}
       /\ exception = "RuntimeError"
       /\ requests[Len(requests)].status # 200
       /\ TourIndexes = {}
       /\ ~resolved
       /\ availabilities = DictEmpty
       /\ ReportLines = {}
       /\ main_result = -1
       /\ pc = "done" => (exit_status = 1 /\ Printed(WrongLine) = 1)

\* The second month of the range fails after the first succeeded.
Witness_C6 ==
    /\ pc = "done"
    /\ Len(requests) = 2
    /\ requests[1].kind = "availability" /\ requests[1].status = 200
    /\ requests[2].kind = "availability" /\ requests[2].status = 500
    /\ exit_status = 1

\* ------------------------------------------------------------------- C7
\* C7 (as claimed), for a range with start <= end: when a tour-name lookup
\* has failed, no report line has been printed for any tour.
Cex_C7 == (TourLookupFailed /\ DateLE(start_date, end_date)) => ReportLines = {}

\* ------------------------------------------------------------------- C8
\* C8 (as claimed), for distinct requested ids: when the run has ended with
\* no failed request, every requested tour t and every date d of the range
\* that the snapshot holds has exactly one not-found line if d's mapping
\* lacks t and none otherwise.
Cex_C8 ==
    (pc = "done" /\ ~AvailabilityFailed /\ ~TourLookupFailed
        /\ Len(tour_ids) = Cardinality(Range(tour_ids)))
    => \A t \in Range(tour_ids) : \A dt \in RangeDateSet :
        Formatted[dt] \in DOMAIN api_data =>
            Printed(NotFoundLine(t, Formatted[dt])) =
                IF TourStateOn(t, dt) = "absent" THEN 1 ELSE 0

\* ------------------------------------------------------------------- C9
\* C9: the availability queries come first, in ascending (year, month)
\* order; a tour-name lookup is issued only after every monthly query has
\* succeeded and the result is complete; the lookups follow the result's
\* keys in request order, one per key, all of them when the run completes.
Thm_C9 ==
    /\ \A i \in AvailabilityIndexes : \A j \in TourIndexes : i < j
    /\ \A i \in AvailabilityIndexes : \A j \in AvailabilityIndexes :
        i < j => \/ requests[i].year < requests[j].year
                 \/ /\ requests[i].year = requests[j].year
                    /\ requests[i].month < requests[j].month
    /\ TourIndexes # {} =>
        /\ ~AvailabilityFailed
        /\ Cardinality(AvailabilityIndexes) = Len(months)
        /\ resolved
        /\ availabilities.keys = RequestOrder
    /\ \A j \in TourIndexes :
        LET nth == j - Cardinality(AvailabilityIndexes)
        IN  nth <= Len(RequestOrder) /\ requests[j].tour = RequestOrder[nth]
    /\ (pc = "done" /\ exception = "none") =>
        Cardinality(TourIndexes) = Len(RequestOrder)

\* Two months then two lookups, the second id asked for first.
Witness_C9 ==
    /\ pc = "done"
    /\ exception = "none"
    /\ tour_ids = <<12, 7>>
    /\ Len(requests) = 4
    /\ requests[1].month = 12 /\ requests[2].month = 1
    /\ requests[3].tour = 12 /\ requests[4].tour = 7

\* ------------------------------------------------------------------ C10
\* C10: once a request has returned a non-200 status no further request is
\* issued, and no (year, month) query and no tour-name lookup is ever
\* issued twice.
Thm_C10 ==
    [][ /\ (\E i \in DOMAIN requests : requests[i].status # 200)
            => requests' = requests
        /\ \A i \in DOMAIN requests' : \A j \in DOMAIN requests' :
            (/\ i # j
             /\ requests'[i].kind = requests'[j].kind)
            => \/ requests'[i].tour # requests'[j].tour
               \/ requests'[i].year # requests'[j].year
               \/ requests'[i].month # requests'[j].month ]_vars

\* A tour asked for twice whose single lookup failed after a good query.
Witness_C10 ==
    /\ pc = "done"
    /\ tour_ids = <<7, 7>>
    /\ Len(requests) = 2
    /\ requests[1].status = 200
    /\ requests[2].kind = "tour" /\ requests[2].status = 500

====
